---- MODULE Spec2Model ----
(***************************************************************************)
(* Transcription worker (src/index.js): the in-memory job registry, the    *)
(* HTTP handlers that create and query jobs, and the detached pipeline     *)
(* processTranscription (mkdir -> yt-dlp -> audio check -> AssemblyAI ->   *)
(* callback -> cleanup -> eviction timer).                                 *)
(*                                                                         *)
(* Node runs one handler turn at a time.  `cpu` names the job whose turn   *)
(* is running (Idle between turns); a turn is split at every registry      *)
(* write and at the response so that the order of effects inside a turn is *)
(* visible, and no other handler runs before the turn reaches an await.    *)
(***************************************************************************)
EXTENDS Integers, Sequences, FiniteSets, TLC

\* ------------------------------------------------------------------ bounds
MaxJobs == 2          \* creation requests admitted in one behaviour

JobIds == 1..MaxJobs
UnknownId == MaxJobs + 1   \* an id no job ever gets

\* values of cpu that are no job id
Idle == <<"idle", UnknownId>>         \* the event loop is free
Request == <<"request", UnknownId>>   \* a handler that owns no job is running
Turn(j) == <<"job", j>>               \* a handler turn of job j is running

\* --------------------------------------------------------------- JS values
Undefined == "undefined"
Null == "null"
NoError == "<none>"

\* a presence test that lets the empty string through
TruthyDefinedOnly(x) == x # Undefined

\* !x for the request values the handlers test (index.js:47, 149, 176)
Truthy(x) == x \notin {Undefined, Null, ""}

\* new Date().toISOString(): an opaque timestamp string
Now == "ts"

\* request bodies of POST /transcribe
UrlInputs == {Undefined, "", "https://example.com/video"}
CallbackInputs == {Undefined, "https://caller/hook"}

\* ------------------------------------------------------------- file names
\* A file name is the sequence of its dot-separated parts, extension last.
AudioMp3 == <<"audio", ".mp3">>
AudioM4a == <<"audio", ".m4a">>
AudioWebm == <<"audio", ".webm">>

\* what yt-dlp can leave in the scratch directory when it exits 0
DirListings == {{AudioMp3}, {AudioM4a}, {AudioWebm}}

\* String.prototype.endsWith on the extension part
EndsWith(f, suffix) == Len(f) > 0 /\ f[Len(f)] = suffix

\* a scan that accepts the video container yt-dlp downloaded as well
IsMediaFile(f) ==
  EndsWith(f, ".mp3") \/ EndsWith(f, ".m4a") \/ EndsWith(f, ".wav") \/ EndsWith(f, ".webm")

\* index.js:112   f.endsWith('.mp3') || f.endsWith('.m4a') || f.endsWith('.wav')
IsAudioFile(f) == EndsWith(f, ".mp3") \/ EndsWith(f, ".m4a") \/ EndsWith(f, ".wav")

\* index.js:112   files.find(...) found something
FindAudioFile(files) == \E f \in files : IsAudioFile(f)

\* index.js:95    path.join(tempDir, 'audio.mp3'), relative to tempDir
audioPath == AudioMp3

\* ------------------------------------------------------------ error texts
MkdirError == "EACCES: permission denied, mkdir"
\* child_process.exec rejects with this text on a non-zero exit and on the timeout kill
ExecErrors == {"Command failed: yt-dlp"}
NoAudioError == "Audio file was not created. Video may be private or unavailable."
UploadError == "ENOENT: no such file or directory, open audio.mp3"
TransportError == "fetch failed: api.assemblyai.com"
ProviderError == "Transcoding failed"
NullTextError == "Cannot read properties of null (reading 'length')"
CallbackError == "fetch failed: callback"

\* index.js:103
DownloadFailed(m) == "Download failed: " \o m
\* index.js:132
AssemblyAIError(m) == "AssemblyAI error: " \o m

\* ------------------------------------------------------------------- state
VARIABLES
  jobs,          \* the registry Map: job id -> record (index.js:20)
  nextId,        \* next job id the handler generates (index.js:52)
  cpu,           \* the job whose handler turn is running, or Idle
  pc,            \* per job: position of its handler / pipeline
  url,           \* per job: processTranscription's url argument
  callbackUrl,   \* per job: processTranscription's callbackUrl argument
  error,         \* per job: the error thrown into the outer catch
  transcript,    \* per job: the value transcribe() resolved to
  dir,           \* per job: the scratch directory /tmp/transcribe_<jobId>
  timer,         \* per job: the eviction setTimeout
  res,           \* per job: the response sent to its creation request
  lastPost,      \* the creation request being rejected (its url) and its response
  lastGet,       \* the GET /job/:jobId request being answered, and its response
  lastList,      \* the response of the GET /jobs request being answered
  hist,          \* per job: every status written to its registry record
  calls          \* per job: the external calls its pipeline has made

vars == <<jobs, nextId, cpu, pc, url, callbackUrl, error, transcript, dir,
          timer, res, lastPost, lastGet, lastList, hist, calls>>

locals == <<url, callbackUrl, error, transcript>>
http == <<res, lastPost, lastGet, lastList>>

NoResponse == [code |-> 0]
NoRequest == [id |-> UnknownId, response |-> NoResponse]
NoTranscript == [status |-> Undefined, text |-> Undefined, error |-> Undefined]
NoCalls == [exec |-> 0, execResult |-> [ok |-> FALSE, files |-> {}], transcribe |-> << >>, fetch |-> << >>,
            fetchResult |-> "none", rm |-> "none", setTimeout |-> 0]

\* ---------------------------------------------------------- registry Map
\* { ...obj, ...patch }: fields of patch win, the others are kept
Spread(obj, patch) ==
  [f \in (DOMAIN obj) \cup (DOMAIN patch) |->
     IF f \in DOMAIN patch THEN patch[f] ELSE obj[f]]

EmptyObject == [f \in {} |-> Undefined]

\* jobs.get(id) as used under a spread: undefined spreads to nothing
MapGet(id) == IF id \in DOMAIN jobs THEN jobs[id] ELSE EmptyObject

\* jobs.set(id, rec)
MapSet(id, rec) == [k \in (DOMAIN jobs) \cup {id} |-> IF k = id THEN rec ELSE jobs[k]]

\* jobs.clear() in place of jobs.delete(id)
MapDeleteAll(id) == [k \in {} |-> EmptyObject]

\* jobs.delete(id)
MapDelete(id) == [k \in (DOMAIN jobs) \ {id} |-> jobs[k]]

\* jobs.set(jobId, rec), with the status it writes appended to the job's history
SetJob(j, rec) ==
  /\ jobs' = MapSet(j, rec)
  /\ hist' = [hist EXCEPT ![j] = Append(@, rec.status)]

\* index.js:55-60
QueuedRecord(j, u) == [jobId |-> j, url |-> u, status |-> "queued", createdAt |-> Now]

\* index.js:63-68
QueuedResponse(j, u) ==
  [code |-> 200, status |-> "queued", jobId |-> j, url |-> u,
   message |-> "Job queued for processing"]

\* index.js:135-141
Result(j, text) ==
  [jobId |-> j, url |-> url[j], transcript |-> text, status |-> "completed",
   completedAt |-> Now]

\* the catch block putting the job back in the queue instead of failing it
ErrorResultRequeued(j, msg) ==
  [jobId |-> j, url |-> url[j], error |-> msg, status |-> "queued", failedAt |-> Now]

\* index.js:165-171
ErrorResult(j, msg) ==
  [jobId |-> j, url |-> url[j], error |-> msg, status |-> "failed", failedAt |-> Now]

Init ==
  /\ jobs = [k \in {} |-> EmptyObject]
  /\ nextId = 1
  /\ cpu = Idle
  /\ pc = [j \in JobIds |-> "unborn"]
  /\ url = [j \in JobIds |-> Undefined]
  /\ callbackUrl = [j \in JobIds |-> Undefined]
  /\ error = [j \in JobIds |-> NoError]
  /\ transcript = [j \in JobIds |-> NoTranscript]
  /\ dir = [j \in JobIds |-> [exists |-> FALSE, files |-> {}]]
  /\ timer = [j \in JobIds |-> "unset"]
  /\ res = [j \in JobIds |-> NoResponse]
  /\ lastPost = NoResponse
  /\ lastGet = NoRequest
  /\ lastList = NoResponse
  /\ hist = [j \in JobIds |-> << >>]
  /\ calls = [j \in JobIds |-> NoCalls]

\* ------------------------------------------------------------ control flow
Goto(j, label, turn) ==
  /\ pc' = [pc EXCEPT ![j] = label]
  /\ cpu' = turn

\* a throw that leaves processTranscription as a rejected promise
ThrowEscapes(j, msg) ==
  /\ error' = [error EXCEPT ![j] = msg]
  /\ Goto(j, "rejected", Idle)

\* throw inside the outer try: the turn continues in the catch block (index.js:162)
Throw(j, msg) ==
  /\ error' = [error EXCEPT ![j] = msg]
  /\ Goto(j, "catch", Turn(j))

\* a pipeline that returns without the finally block
FinallySkipped(j) == Goto(j, "done", Idle)

\* entry of the finally block: fs.rm is invoked and awaited (index.js:187-190)
Finally(j) == Goto(j, "await_rm", Idle)

\* a callback try whose catch rethrows into the pipeline's error handling
CallbackCatchRethrow(j, msg) == Throw(j, msg)

\* inner catch of the callback try: log only, fall through (index.js:157-159, 183-185)
CallbackCatch(j, msg) == Finally(j) /\ UNCHANGED error

Called(j, field, value) == calls' = [calls EXCEPT ![j][field] = value]

\* ------------------------------------------------- POST /transcribe handler
\* index.js:47-49   if (!url) return res.status(400)...
RejectRequest(u) ==
  /\ lastPost' = [url |-> u, code |-> 400, error |-> "URL required"]
  /\ cpu' = Request
  /\ UNCHANGED <<jobs, nextId, pc, locals, dir, timer, res, lastGet, lastList, hist, calls>>

\* a handler that runs the pipeline before it has answered
AdmitRequestUnanswered(u, c) ==
  /\ nextId <= MaxJobs
  /\ LET j == nextId IN
       /\ SetJob(j, QueuedRecord(j, u))
       /\ url' = [url EXCEPT ![j] = u]
       /\ callbackUrl' = [callbackUrl EXCEPT ![j] = c]
       /\ Goto(j, "start", Turn(j))
  /\ nextId' = nextId + 1
  /\ UNCHANGED <<error, transcript, dir, timer, http, calls>>

\* index.js:51-60   generate the id, jobs.set(jobId, {... status: 'queued' ...})
AdmitRequest(u, c) ==
  /\ nextId <= MaxJobs
  /\ LET j == nextId IN
       /\ SetJob(j, QueuedRecord(j, u))
       /\ url' = [url EXCEPT ![j] = u]
       /\ callbackUrl' = [callbackUrl EXCEPT ![j] = c]
       /\ Goto(j, "respond", Turn(j))
  /\ nextId' = nextId + 1
  /\ UNCHANGED <<error, transcript, dir, timer, http, calls>>

\* index.js:44-60
PostTranscribe(u, c) ==
  /\ cpu = Idle
  /\ IF ~Truthy(u) THEN RejectRequest(u) ELSE AdmitRequest(u, c)

\* index.js:62-68   res.json({status: 'queued', jobId, url, message})
Respond(j) ==
  /\ cpu = Turn(j) /\ pc[j] = "respond"
  /\ res' = [res EXCEPT ![j] = QueuedResponse(j, url[j])]
  /\ Goto(j, "start", Turn(j))
  /\ UNCHANGED <<jobs, nextId, locals, dir, timer, lastPost, lastGet, lastList, hist, calls>>

\* ------------------------------------------------------ processTranscription
\* a pipeline that sets its eviction timer when it starts
StartWithEviction(j) ==
  /\ cpu = Turn(j) /\ pc[j] = "start"
  /\ SetJob(j, Spread(MapGet(j), [status |-> "processing", startedAt |-> Now]))
  /\ timer' = [timer EXCEPT ![j] = "armed"]
  /\ Called(j, "setTimeout", calls[j].setTimeout + 1)
  /\ Goto(j, "await_mkdir", Idle)
  /\ UNCHANGED <<nextId, locals, dir, http>>

\* a call of processTranscription that awaits fs.mkdir before it marks the job
StartUnmarked(j) ==
  /\ cpu = Turn(j) /\ pc[j] = "start"
  /\ Goto(j, "await_mkdir", Idle)
  /\ UNCHANGED <<jobs, hist, nextId, locals, dir, timer, http, calls>>

\* index.js:71, 74-85   the call, the 'processing' write, fs.mkdir awaited
Start(j) ==
  /\ cpu = Turn(j) /\ pc[j] = "start"
  /\ SetJob(j, Spread(MapGet(j), [status |-> "processing", startedAt |-> Now]))
  /\ Goto(j, "await_mkdir", Idle)
  /\ UNCHANGED <<nextId, locals, dir, timer, http, calls>>

\* index.js:85-101   mkdir settles; 'downloading' write; yt-dlp started and awaited
MkdirReturn(j, ok) ==
  /\ cpu = Idle /\ pc[j] = "await_mkdir"
  /\ IF ok
       THEN /\ dir' = [dir EXCEPT ![j].exists = TRUE]
            /\ SetJob(j, Spread(MapGet(j), [status |-> "downloading"]))
            /\ Called(j, "exec", calls[j].exec + 1)
            /\ Goto(j, "await_exec", Idle)
            /\ UNCHANGED error
       ELSE /\ Throw(j, MkdirError)
            /\ UNCHANGED <<jobs, hist, dir, calls>>
  /\ UNCHANGED <<nextId, url, callbackUrl, transcript, timer, http>>

\* the ways the yt-dlp child process can settle
ExecOutcomes ==
  [ok : {TRUE}, files : DirListings, msg : {""}]
    \cup [ok : {FALSE}, files : {{}}, msg : ExecErrors]

\* index.js:97-108   execAsync settles; on success fs.access(audioPath) is awaited
ExecReturn(j, o) ==
  /\ cpu = Idle /\ pc[j] = "await_exec"
  /\ dir' = [dir EXCEPT ![j].files = o.files]
  /\ Called(j, "execResult", [ok |-> o.ok, files |-> o.files])
  /\ IF o.ok
       THEN Goto(j, "await_access", Idle) /\ UNCHANGED error
       ELSE Throw(j, DownloadFailed(o.msg))
  /\ UNCHANGED <<jobs, hist, nextId, url, callbackUrl, transcript, timer, http>>

\* index.js:118-129   'transcribing' write; transcribe({audio: audioPath}) awaited
BeginTranscribe(j) ==
  /\ SetJob(j, Spread(MapGet(j), [status |-> "transcribing"]))
  /\ Called(j, "transcribe", Append(calls[j].transcribe, audioPath))
  /\ Goto(j, "await_transcribe", Idle)
  /\ UNCHANGED error

\* a pipeline that goes on to transcribe without looking for the audio file
AccessReturnUnchecked(j) ==
  /\ cpu = Idle /\ pc[j] = "await_access"
  /\ BeginTranscribe(j)
  /\ UNCHANGED <<nextId, url, callbackUrl, transcript, dir, timer, http>>

\* index.js:107-111   fs.access settles; ENOENT leads to fs.readdir(tempDir)
AccessReturn(j) ==
  /\ cpu = Idle /\ pc[j] = "await_access"
  /\ IF audioPath \in dir[j].files
       THEN BeginTranscribe(j)
       ELSE Goto(j, "await_readdir", Idle) /\ UNCHANGED <<jobs, hist, calls, error>>
  /\ UNCHANGED <<nextId, url, callbackUrl, transcript, dir, timer, http>>

\* index.js:111-116   the fallback scan of the scratch directory
ReaddirReturn(j) ==
  /\ cpu = Idle /\ pc[j] = "await_readdir"
  /\ LET files == dir[j].files IN
       IF FindAudioFile(files)
         THEN BeginTranscribe(j)
         ELSE Throw(j, NoAudioError) /\ UNCHANGED <<jobs, hist, calls>>
  /\ UNCHANGED <<nextId, url, callbackUrl, transcript, dir, timer, http>>

\* the ways assemblyai.transcripts.transcribe can settle: it uploads the local file
\* first, so a path that names no file rejects; otherwise it rejects on a transport
\* error or resolves to a transcript whose status is 'error' or 'completed', and
\* whose text the SDK types as string | null
TranscribeOutcomes(fileExists) ==
  IF ~fileExists
    THEN [kind : {"reject"}, msg : {UploadError}, status : {Undefined},
          text : {Undefined}, error : {Undefined}]
    ELSE [kind : {"reject"}, msg : {TransportError}, status : {Undefined},
          text : {Undefined}, error : {Undefined}]
         \cup [kind : {"resolve"}, msg : {""}, status : {"error"},
               text : {Null}, error : {ProviderError}]
         \cup [kind : {"resolve"}, msg : {""}, status : {"completed"},
               text : {"hello world", "", Null}, error : {Null}]

\* index.js:126-144   transcribe settles; provider error thrown, else the
\* 'completed' record replaces the registry record
TranscribeReturn(j, o) ==
  /\ cpu = Idle /\ pc[j] = "await_transcribe"
  /\ IF o.kind = "reject"
       THEN Throw(j, o.msg) /\ UNCHANGED <<jobs, hist, transcript>>
       ELSE /\ transcript' = [transcript EXCEPT ![j] =
                                [status |-> o.status, text |-> o.text, error |-> o.error]]
            /\ IF o.status = "error"
                 THEN Throw(j, AssemblyAIError(o.error)) /\ UNCHANGED <<jobs, hist>>
                 ELSE /\ SetJob(j, Result(j, o.text))
                      /\ Goto(j, "log", Turn(j))
                      /\ UNCHANGED error
  /\ UNCHANGED <<calls, nextId, url, callbackUrl, dir, timer, http>>

\* index.js:146-160   transcript.text.length is read for the log line, then the
\* success callback is posted (if any), else the finally block is entered
LogSuccess(j) ==
  /\ cpu = Turn(j) /\ pc[j] = "log"
  /\ IF transcript[j].text \in {Null, Undefined}
       THEN Throw(j, NullTextError) /\ UNCHANGED calls
       ELSE IF Truthy(callbackUrl[j])
         THEN /\ Called(j, "fetch", Append(calls[j].fetch, Result(j, transcript[j].text)))
              /\ Goto(j, "await_callback", Idle)
              /\ UNCHANGED error
         ELSE Finally(j) /\ UNCHANGED <<calls, error>>
  /\ UNCHANGED <<jobs, hist, nextId, url, callbackUrl, transcript, dir, timer, http>>

\* a catch block that swallows the error without a terminal write
CatchSwallow(j) ==
  /\ cpu = Turn(j) /\ pc[j] = "catch"
  /\ Finally(j)
  /\ UNCHANGED <<jobs, hist, calls, nextId, locals, dir, timer, http>>

\* a catch block that stores the failure and posts no callback
CatchNoCallback(j) ==
  /\ cpu = Turn(j) /\ pc[j] = "catch"
  /\ SetJob(j, ErrorResult(j, error[j]))
  /\ Finally(j)
  /\ UNCHANGED <<calls, nextId, locals, dir, timer, http>>

\* index.js:162-186   the catch block: the 'failed' record replaces the registry
\* record, then the error callback is posted (if any)
Catch(j) ==
  /\ cpu = Turn(j) /\ pc[j] = "catch"
  /\ SetJob(j, ErrorResult(j, error[j]))
  /\ IF Truthy(callbackUrl[j])
       THEN /\ Called(j, "fetch", Append(calls[j].fetch, ErrorResult(j, error[j])))
            /\ Goto(j, "await_callback", Idle)
       ELSE Finally(j) /\ UNCHANGED calls
  /\ UNCHANGED <<nextId, locals, dir, timer, http>>

\* the ways fetch(callbackUrl) can settle: fetch resolves on any HTTP status and
\* rejects on a network error and on the HTTP client's connect or headers timeout
FetchOutcomes == {"2xx", "non-2xx", "rejected", "timeout"}

\* a callback whose rejection ends the pipeline before the finally block
CallbackReturnUncaught(j, o) ==
  /\ cpu = Idle /\ pc[j] = "await_callback"
  /\ Called(j, "fetchResult", o)
  /\ IF o \in {"rejected", "timeout"}
       THEN Goto(j, "done", Idle) /\ UNCHANGED error
       ELSE Finally(j) /\ UNCHANGED error
  /\ UNCHANGED <<jobs, hist, nextId, url, callbackUrl, transcript, dir, timer, http>>

\* index.js:151-160, 178-186   the callback fetch settles
CallbackReturn(j, o) ==
  /\ cpu = Idle /\ pc[j] = "await_callback"
  /\ Called(j, "fetchResult", o)
  /\ IF o \in {"rejected", "timeout"}
       THEN CallbackCatch(j, CallbackError)
       ELSE Finally(j) /\ UNCHANGED error
  /\ UNCHANGED <<jobs, hist, nextId, url, callbackUrl, transcript, dir, timer, http>>

\* a finally block that sets the eviction timer inside the cleanup try
RmReturnTimerInTry(j, ok) ==
  /\ cpu = Idle /\ pc[j] = "await_rm"
  /\ dir' = IF ok THEN [dir EXCEPT ![j] = [exists |-> FALSE, files |-> {}]] ELSE dir
  /\ calls' = [calls EXCEPT ![j].rm = IF ok THEN "removed" ELSE "failed",
                            ![j].setTimeout = IF ok THEN @ + 1 ELSE @]
  /\ timer' = [timer EXCEPT ![j] = IF ok THEN "armed" ELSE @]
  /\ Goto(j, "done", Idle)
  /\ UNCHANGED <<jobs, hist, nextId, locals, http>>

\* index.js:189-198   fs.rm settles (its error is ignored); the eviction timer is set
RmReturn(j, ok) ==
  /\ cpu = Idle /\ pc[j] = "await_rm"
  /\ dir' = IF ok THEN [dir EXCEPT ![j] = [exists |-> FALSE, files |-> {}]] ELSE dir
  /\ calls' = [calls EXCEPT ![j].rm = IF ok THEN "removed" ELSE "failed",
                            ![j].setTimeout = @ + 1]
  /\ timer' = [timer EXCEPT ![j] = "armed"]
  /\ Goto(j, "done", Idle)
  /\ UNCHANGED <<jobs, hist, nextId, locals, http>>

\* index.js:196-198   the timer callback: jobs.delete(jobId)
\* (the recorded callback outcome is dropped together with the record)
TimerFire(j) ==
  /\ cpu = Idle /\ timer[j] = "armed"
  /\ jobs' = MapDelete(j)
  /\ timer' = [timer EXCEPT ![j] = "fired"]
  /\ Called(j, "fetchResult", "none")
  /\ UNCHANGED <<nextId, cpu, pc, locals, dir, http, hist>>

\* ------------------------------------------------------- GET /job/:jobId
\* a handler without the not-found test
GetJobUnchecked(id) ==
  /\ cpu = Idle
  /\ lastGet' = [id |-> id, response |-> [code |-> 200, body |-> MapGet(id)]]
  /\ cpu' = Request
  /\ UNCHANGED <<jobs, nextId, pc, locals, dir, timer, res, lastPost, lastList, hist, calls>>

\* index.js:32-41
GetJob(id) ==
  /\ cpu = Idle
  /\ lastGet' = [id |-> id, response |->
                   IF id \in DOMAIN jobs
                     THEN [code |-> 200, body |-> jobs[id]]
                     ELSE [code |-> 404, body |-> [error |-> "Job not found"]]]
  /\ cpu' = Request
  /\ UNCHANGED <<jobs, nextId, pc, locals, dir, timer, res, lastPost, lastList, hist, calls>>

\* Array.from(jobs.values()): the records in insertion order, which is the order
\* of the ids, since an id is inserted once and jobs.set on it keeps its place
RECURSIVE MapValues(_)
MapValues(ids) ==
  IF ids = {} THEN << >>
  ELSE LET k == CHOOSE x \in ids : \A y \in ids : x <= y
       IN <<jobs[k]>> \o MapValues(ids \ {k})

\* index.js:203-209   GET /jobs
ListJobs ==
  /\ cpu = Idle
  /\ LET allJobs == MapValues(DOMAIN jobs) IN
       lastList' = [code |-> 200, total |-> Len(allJobs), jobs |-> allJobs]
  /\ cpu' = Request
  /\ UNCHANGED <<jobs, nextId, pc, locals, dir, timer, res, lastPost, lastGet, hist, calls>>

\* a handler that owns no job returns: its request and response are gone
EndRequest ==
  /\ cpu = Request
  /\ cpu' = Idle
  /\ lastGet' = NoRequest
  /\ lastPost' = NoResponse
  /\ lastList' = NoResponse
  /\ UNCHANGED <<jobs, nextId, pc, locals, dir, timer, res, hist, calls>>

QueryIds == JobIds \cup {UnknownId}

Next ==
  \/ \E u \in UrlInputs, c \in CallbackInputs : PostTranscribe(u, c)
  \/ \E j \in JobIds : Respond(j)
  \/ \E j \in JobIds : Start(j)
  \/ \E j \in JobIds, ok \in BOOLEAN : MkdirReturn(j, ok)
  \/ \E j \in JobIds, o \in ExecOutcomes : ExecReturn(j, o)
  \/ \E j \in JobIds : AccessReturn(j)
  \/ \E j \in JobIds : ReaddirReturn(j)
  \/ \E j \in JobIds : \E o \in TranscribeOutcomes(audioPath \in dir[j].files) :
       TranscribeReturn(j, o)
  \/ \E j \in JobIds : LogSuccess(j)
  \/ \E j \in JobIds : Catch(j)
  \/ \E j \in JobIds, o \in FetchOutcomes : CallbackReturn(j, o)
  \/ \E j \in JobIds, ok \in BOOLEAN : RmReturn(j, ok)
  \/ \E j \in JobIds : TimerFire(j)
  \/ \E id \in QueryIds : GetJob(id)
  \/ ListJobs
  \/ EndRequest

Spec == Init /\ [][Next]_vars

\* the continuation of job j's pipeline after an awaited step up to transcription
\* has settled (index.js:85, 98, 108, 112, 127)
PipelineStep(j) ==
  \/ \E ok \in BOOLEAN : MkdirReturn(j, ok)
  \/ \E o \in ExecOutcomes : ExecReturn(j, o)
  \/ AccessReturn(j)
  \/ ReaddirReturn(j)
  \/ \E o \in TranscribeOutcomes(audioPath \in dir[j].files) : TranscribeReturn(j, o)

\* the continuation after the callback fetch or fs.rm has settled (index.js:151, 177, 190)
CleanupStep(j) ==
  \/ \E o \in FetchOutcomes : CallbackReturn(j, o)
  \/ \E ok \in BOOLEAN : RmReturn(j, ok)

\* the synchronous part of job j's handler turn
TurnStep(j) == Respond(j) \/ Start(j) \/ LogSuccess(j) \/ Catch(j)

\* the synchronous rest of a handler turn that has begun
RunTurn ==
  \/ \E j \in JobIds : Respond(j) \/ Start(j) \/ LogSuccess(j) \/ Catch(j)
  \/ EndRequest

\* A turn that has begun runs to its next await, and the event loop runs the timers
\* phase on every iteration, so a due timer fires however many requests arrive.
\* Nothing is assumed of the external calls: they may never settle.
LiveSpec ==
  /\ Spec
  /\ WF_vars(RunTurn)
  /\ \A j \in JobIds : SF_vars(TimerFire(j))

\* The download returns or hits its 300 s timeout (index.js:99) and the provider
\* returns a result or an error; the file-system calls before them settle too.
PipelineSpec ==
  /\ Spec
  /\ WF_vars(RunTurn)
  /\ \A j \in JobIds : SF_vars(PipelineStep(j))

\* The callback fetch settles (it resolves on any response and rejects on a network
\* error or the HTTP client's timeout) and so does fs.rm.
CleanupSpec ==
  /\ Spec
  /\ WF_vars(RunTurn)
  /\ \A j \in JobIds : SF_vars(CleanupStep(j))

TypeOK ==
  /\ DOMAIN jobs \subseteq JobIds
  /\ cpu \in {Turn(j) : j \in JobIds} \cup {Idle, Request}
  /\ nextId \in 1..(MaxJobs + 1)
  /\ \A j \in JobIds : timer[j] \in {"unset", "armed", "fired"}

\* ================================================================== claims
Terminal == {"completed", "failed"}
Last(s) == s[Len(s)]
IsPrefix(s, t) == Len(s) <= Len(t) /\ \A i \in 1..Len(s) : s[i] = t[i]

RECURSIVE IsSubseq(_, _)
IsSubseq(s, t) ==
  IF s = << >> THEN TRUE
  ELSE IF t = << >> THEN FALSE
  ELSE IF Head(s) = Head(t) THEN IsSubseq(Tail(s), Tail(t))
  ELSE IsSubseq(s, Tail(t))

\* position of a status in the state machine of spec section 4.4
Rank(st) ==
  CASE st = "queued" -> 0
    [] st = "processing" -> 1
    [] st = "downloading" -> 2
    [] st = "transcribing" -> 3
    [] OTHER -> 4

NoRegression(s) == \A a, b \in 1..Len(s) : a < b => Rank(s[a]) <= Rank(s[b])

\* the history is the registry's: a resident record shows the last status written
HistoryIsRegistry ==
  \A j \in JobIds :
    /\ j \in DOMAIN jobs => hist[j] # << >> /\ jobs[j].status = Last(hist[j])
    /\ pc[j] = "unborn" <=> hist[j] = << >>

\* C1 (as claimed): the statuses a job's record takes form a subsequence of
\* (queued, downloading, transcribing, completed), of (queued, downloading, failed)
\* or of (queued, transcribing, failed), and never go back in the state machine.
C1_ThreeSequences ==
  \A j \in JobIds :
    /\ \/ IsSubseq(hist[j], <<"queued", "downloading", "transcribing", "completed">>)
       \/ IsSubseq(hist[j], <<"queued", "downloading", "failed">>)
       \/ IsSubseq(hist[j], <<"queued", "transcribing", "failed">>)
    /\ NoRegression(hist[j])

SuccessPath == <<"queued", "processing", "downloading", "transcribing", "completed">>

\* C1 (amended): the statuses a job's record takes form a prefix of (queued,
\* processing, downloading, transcribing, completed), followed or not by failed
\* once processing was written; so they are a subsequence of (queued, processing,
\* downloading, transcribing, completed, failed) and never go back.
C1_StatusSequence ==
  /\ HistoryIsRegistry
  /\ \A j \in JobIds :
       /\ \/ IsPrefix(hist[j], SuccessPath)
          \/ /\ Len(hist[j]) >= 3
             /\ Last(hist[j]) = "failed"
             /\ IsPrefix(SubSeq(hist[j], 1, Len(hist[j]) - 1), SuccessPath)
       /\ IsSubseq(hist[j], Append(SuccessPath, "failed"))
       /\ NoRegression(hist[j])

\* C1 witness: a transcription failure, whose statuses none of the three claimed
\* sequences contains
C1_Witness ==
  \E j \in DOMAIN jobs :
    /\ hist[j] = <<"queued", "processing", "downloading", "transcribing", "failed">>
    /\ jobs[j].status = "failed"

\* C2 (as claimed): once a record is completed or failed, no later step changes it;
\* it can only be evicted.
C2_TerminalRecordFrozen ==
  [][\A j \in DOMAIN jobs :
       jobs[j].status \in Terminal => (j \notin DOMAIN jobs' \/ jobs'[j] = jobs[j])]_vars

\* a field that is present and holds a value
Populated(r, f) == f \in DOMAIN r /\ r[f] \notin {Null, Undefined}

\* C3 (as claimed): a completed record has transcript and no error, a failed record
\* has error and no transcript, a non-terminal record has neither.
C3_TranscriptXorError ==
  \A j \in DOMAIN jobs :
    LET r == jobs[j] IN
      /\ r.status = "completed" => Populated(r, "transcript") /\ ~Populated(r, "error")
      /\ r.status = "failed" => Populated(r, "error") /\ ~Populated(r, "transcript")
      /\ r.status \notin Terminal => ~Populated(r, "transcript") /\ ~Populated(r, "error")

\* C4: for a request with a non-empty url the handler stores the queued record and
\* answers {status: queued, jobId, url} before the pipeline's first write, and
\* without waiting for any pipeline step.
C4_QueuedResponseFirst ==
  \A j \in JobIds :
    /\ pc[j] = "respond" =>
         res[j] = NoResponse /\ hist[j] = <<"queued">> /\ jobs[j].status = "queued"
    /\ pc[j] = "start" =>
         /\ hist[j] = <<"queued">> /\ jobs[j].status = "queued"
         /\ calls[j] = NoCalls /\ ~dir[j].exists
    /\ (pc[j] = "start" \/ Len(hist[j]) >= 2) =>
         /\ res[j].code = 200
         /\ res[j].status = "queued" /\ res[j].jobId = j /\ res[j].url = url[j]
         /\ url[j] \notin {Undefined, ""}

\* C4 witness: the response is out, the record is queued, the pipeline has not written
C4_Witness ==
  \E j \in DOMAIN jobs :
    pc[j] = "start" /\ res[j].code = 200 /\ jobs[j].status = "queued"

\* C5 (as claimed): after a job's pipeline has finished, on every path, its scratch
\* directory no longer exists.
C5_ScratchDirGone == \A j \in JobIds : pc[j] = "done" => ~dir[j].exists

\* C5 (amended): after a job's pipeline has finished, on every path, the removal of
\* its scratch directory has been attempted, and the directory no longer exists
\* unless that removal failed.
C5_ScratchDirRemovalAttempted ==
  \A j \in JobIds :
    pc[j] = "done" =>
      /\ calls[j].rm \in {"removed", "failed"}
      /\ calls[j].rm = "removed" => ~dir[j].exists /\ dir[j].files = {}

\* C5 witness: a transcription failure after a download, and the directory is gone
C5_Witness ==
  \E j \in DOMAIN jobs :
    /\ pc[j] = "done" /\ jobs[j].status = "failed"
    /\ calls[j].execResult.files = {AudioMp3} /\ Len(calls[j].transcribe) = 1
    /\ calls[j].rm = "removed" /\ ~dir[j].exists

\* C6: once a job's pipeline has finished, completed or failed, its record is
\* eventually deleted, queried or not, and from then on a status query for its id
\* answers not-found.
C6_EvictedAfterRetention ==
  \A j \in JobIds :
    /\ (pc[j] = "done") ~> (j \notin DOMAIN jobs)
    /\ [](timer[j] = "fired" =>
            [](/\ j \notin DOMAIN jobs
               /\ (cpu = Request /\ lastGet.id = j) => lastGet.response.code = 404))

\* C6 witness: a completed job and a failed job, both evicted
C6_Witness ==
  \E j, k \in JobIds :
    /\ timer[j] = "fired" /\ timer[k] = "fired"
    /\ j \notin DOMAIN jobs /\ k \notin DOMAIN jobs
    /\ Last(hist[j]) = "completed" /\ Last(hist[k]) = "failed"

\* C7: a status query answers not-found exactly when the registry holds no record
\* for the id, and otherwise answers the current registry record of that id.
C7_QueryAnswersRegistry ==
  (cpu = Request /\ lastGet.response.code # 0) =>
    LET id == lastGet.id
        r == lastGet.response
    IN /\ r.code \in {200, 404}
       /\ r.code = 404 <=> id \notin DOMAIN jobs
       /\ r.code = 200 => r.body = jobs[id] /\ r.body.jobId = id

\* C7 witness: a query for an evicted job answered not-found
C7_Witness ==
  /\ cpu = Request /\ lastGet.response.code = 404
  /\ lastGet.id \in JobIds /\ timer[lastGet.id] = "fired"

\* C8: a creation request whose url is missing or empty is answered 400, creates no
\* record, changes no record nor the registry size, and starts no pipeline.
C8_RejectedRequestChangesNothing ==
  [][/\ (lastPost'.code = 400 /\ lastPost.code # 400) =>
          /\ jobs' = jobs
          /\ Cardinality(DOMAIN jobs') = Cardinality(DOMAIN jobs)
          /\ nextId' = nextId /\ pc' = pc /\ hist' = hist /\ calls' = calls
     /\ \A j \in JobIds :
          (pc[j] = "unborn" /\ pc'[j] # "unborn") => url'[j] \notin {Undefined, ""}
    ]_vars

\* C8 witness: an empty url rejected while another job is being transcribed
C8_Witness ==
  /\ cpu = Request /\ lastPost.code = 400 /\ lastPost.url = ""
  /\ \E j \in DOMAIN jobs : jobs[j].status = "transcribing"

\* C9: when the download exits successfully, audio.mp3 is absent and the scratch
\* directory holds no .mp3, .m4a or .wav file, the job fails with the error that the
\* audio file was not created, and transcription is never invoked for it.
C9_NoAudioFails ==
  \A j \in JobIds :
    LET files == calls[j].execResult.files IN
      ( /\ calls[j].execResult.ok
        /\ audioPath \notin files
        /\ \A f \in files : Last(f) \notin {".mp3", ".m4a", ".wav"}
        /\ pc[j] \notin {"await_access", "await_readdir"} ) =>
          /\ calls[j].transcribe = << >>
          /\ \A i \in 1..Len(hist[j]) : hist[j][i] # "transcribing"
          /\ IF pc[j] = "catch"
               THEN error[j] = NoAudioError
               ELSE /\ Last(hist[j]) = "failed"
                    /\ j \in DOMAIN jobs =>
                         jobs[j].status = "failed" /\ jobs[j].error = NoAudioError

\* C9 witness: yt-dlp left only a .webm file and the job has failed
C9_Witness ==
  \E j \in DOMAIN jobs :
    /\ calls[j].execResult.ok /\ calls[j].execResult.files = {AudioWebm}
    /\ jobs[j].status = "failed" /\ jobs[j].error = NoAudioError

\* the value of a field, undefined when the record lacks it
Field(r, f) == IF f \in DOMAIN r THEN r[f] ELSE Undefined

\* the pipelines of j and k got the same results from mkdir, yt-dlp and the provider
SameRun(j, k) ==
  /\ pc[j] \in {"await_rm", "done"} /\ pc[k] \in {"await_rm", "done"}
  /\ calls[j].exec = calls[k].exec
  /\ calls[j].execResult = calls[k].execResult
  /\ calls[j].transcribe = calls[k].transcribe
  /\ transcript[j] = transcript[k]

\* C10: a failed callback delivery changes nothing in the job's record: the record
\* has the status, transcript and error the same run gives without a callbackUrl,
\* and no field mentions the callback failure.
C10_CallbackFailureInvisible ==
  /\ [][\A j \in JobIds :
          (pc[j] = "await_callback" /\ pc'[j] # "await_callback") =>
            jobs' = jobs /\ pc'[j] = "await_rm"]_vars
  /\ [](\A j \in DOMAIN jobs :
          calls[j].fetchResult \in {"rejected", "non-2xx", "timeout"} =>
            /\ jobs[j].status \in Terminal
            /\ \A f \in (DOMAIN jobs[j]) \ {"jobId"} : jobs[j][f] # CallbackError
            /\ \A k \in DOMAIN jobs :
                 (SameRun(j, k) /\ callbackUrl[k] = Undefined) =>
                   \A f \in {"status", "transcript", "error"} :
                     Field(jobs[j], f) = Field(jobs[k], f))

\* C10 witness: a completed job whose callback was rejected, beside a job with the
\* same run and no callbackUrl
C10_Witness ==
  \E j, k \in DOMAIN jobs :
    /\ calls[j].fetchResult = "rejected" /\ jobs[j].status = "completed"
    /\ SameRun(j, k) /\ callbackUrl[k] = Undefined

\* C11: a job that reached a terminal status with a callbackUrl has issued exactly
\* one callback, after the terminal write, whose payload is the job's registry
\* record from then until eviction; without a callbackUrl it issues none.
C11_OneCallbackWithFinalRecord ==
  \A j \in JobIds :
    /\ Len(calls[j].fetch) <= 1
    /\ calls[j].fetch # << >> =>
         /\ callbackUrl[j] \notin {Undefined, ""}
         /\ Last(hist[j]) \in Terminal
         /\ calls[j].fetch[1].status = Last(hist[j])
    /\ (hist[j] # << >> /\ Last(hist[j]) \in Terminal /\ cpu # Turn(j)) =>
         IF callbackUrl[j] \in {Undefined, ""}
           THEN calls[j].fetch = << >>
           ELSE /\ Len(calls[j].fetch) = 1
                /\ j \in DOMAIN jobs => calls[j].fetch[1] = jobs[j]

\* C11 witness: a failed job whose pipeline is over and whose one callback carried
\* the failed record
C11_Witness ==
  \E j \in DOMAIN jobs :
    /\ pc[j] = "done" /\ jobs[j].status = "failed"
    /\ calls[j].fetch = <<jobs[j]>>

\* C12 (as claimed): whenever transcription is invoked, the path passed to it names
\* a file that exists in the job's scratch directory.
C12_TranscribedFileExists ==
  \A j \in JobIds :
    pc[j] = "await_transcribe" => Last(calls[j].transcribe) \in dir[j].files

\* C13 (as claimed): every pipeline write keeps the fields it does not set; createdAt
\* and startedAt keep their values through every later write.
C13_WritesMerge ==
  [][\A j \in DOMAIN jobs :
       (j \in DOMAIN jobs' /\ jobs'[j] # jobs[j]) =>
         \A f \in {"createdAt", "startedAt"} \cap DOMAIN jobs[j] :
           f \in DOMAIN jobs'[j] /\ jobs'[j][f] = jobs[j][f]]_vars

\* extraction of job j is over and gave no audio file
ExtractionFailed(j) ==
  /\ pc[j] \notin {"unborn", "respond", "start", "await_mkdir", "await_exec",
                   "await_access", "await_readdir"}
  /\ \/ calls[j].exec = 0
     \/ ~calls[j].execResult.ok
     \/ \A f \in calls[j].execResult.files : Last(f) \notin {".mp3", ".m4a", ".wav"}

\* C14: in one job the download runs once and has returned before the one
\* transcription is submitted, which needs a successful extraction; the callback is
\* issued only after the transcription returned or a step failed; after a failed
\* extraction the status never becomes transcribing.
C14_StepsOrderedOnce ==
  \A j \in JobIds :
    /\ calls[j].exec <= 1 /\ Len(calls[j].transcribe) <= 1 /\ Len(calls[j].fetch) <= 1
    /\ pc[j] \in {"await_mkdir", "await_exec", "await_access", "await_readdir"} =>
         calls[j].transcribe = << >>
    /\ calls[j].transcribe # << >> =>
         /\ calls[j].exec = 1 /\ calls[j].execResult.ok
         /\ \E f \in calls[j].execResult.files : Last(f) \in {".mp3", ".m4a", ".wav"}
    /\ pc[j] \in {"await_mkdir", "await_exec", "await_access", "await_readdir",
                  "await_transcribe"} => calls[j].fetch = << >>
    /\ calls[j].fetch # << >> =>
         error[j] # NoError \/ transcript[j].status = "completed"
    /\ ExtractionFailed(j) =>
         /\ calls[j].transcribe = << >>
         /\ \A i \in 1..Len(hist[j]) : hist[j][i] # "transcribing"

\* C14 witness: download, transcription and callback have each run once, in order
C14_Witness ==
  \E j \in DOMAIN jobs :
    /\ pc[j] = "done" /\ jobs[j].status = "completed"
    /\ calls[j].exec = 1 /\ Len(calls[j].transcribe) = 1 /\ Len(calls[j].fetch) = 1

PastTry == {"catch", "await_callback", "await_rm", "done"}

\* C15: every error raised in a job's pipeline (mkdir, download exit or timeout,
\* missing audio file, transcription transport error, provider error status) is
\* caught: the job's record becomes failed with the error text in its error field,
\* and the pipeline goes on to its finally block instead of rejecting.
C15_ErrorsEndInFailed ==
  \A j \in JobIds :
    /\ error[j] # NoError => pc[j] \in PastTry
    /\ (error[j] # NoError /\ pc[j] # "catch") =>
         /\ Last(hist[j]) = "failed"
         /\ j \in DOMAIN jobs => jobs[j].status = "failed" /\ jobs[j].error = error[j]
    /\ (pc[j] \in PastTry /\ calls[j].exec = 0) => error[j] = MkdirError
    /\ (pc[j] \in PastTry /\ calls[j].exec = 1 /\ ~calls[j].execResult.ok) =>
         error[j] \in {DownloadFailed(m) : m \in ExecErrors}
    /\ (calls[j].exec = 1 /\ calls[j].execResult.ok /\ ExtractionFailed(j)) =>
         error[j] = NoAudioError
    /\ (pc[j] \in PastTry /\ calls[j].transcribe # << >> /\ transcript[j] = NoTranscript) =>
         error[j] \in {UploadError, TransportError}
    /\ transcript[j].status = "error" => error[j] = AssemblyAIError(ProviderError)

\* C15 witness: a failed download whose text is in the resident record, with the
\* pipeline finished
C15_Witness ==
  \E j \in DOMAIN jobs :
    /\ pc[j] = "done" /\ ~calls[j].execResult.ok /\ calls[j].exec = 1
    /\ jobs[j].status = "failed" /\ jobs[j].error \in {DownloadFailed(m) : m \in ExecErrors}

\* a step of job a's pipeline, including its admission and its eviction
StepOf(a) == pc'[a] # pc[a] \/ timer'[a] # timer[a]

SameRecord(b) ==
  /\ b \in DOMAIN jobs <=> b \in DOMAIN jobs'
  /\ b \in DOMAIN jobs => jobs'[b] = jobs[b]

\* job b has a pipeline continuation it could run as soon as the event loop is free
CanProgress(b) ==
  \/ pc[b] \in {"unborn", "done"}
  \/ cpu = Turn(b) /\ ENABLED TurnStep(b)
  \/ cpu \in {Idle, Request} \cup {Turn(a) : a \in JobIds \ {b}}
       /\ pc[b] \in {"await_mkdir", "await_exec", "await_access", "await_readdir",
                     "await_transcribe", "await_callback", "await_rm"}

\* whoever holds the event loop gives it back
TurnEnds ==
  /\ cpu = Request => ENABLED EndRequest
  /\ \A a \in JobIds : cpu = Turn(a) => ENABLED TurnStep(a)
  /\ cpu = Idle => \A b \in JobIds :
       pc[b] \notin {"unborn", "done"} => ENABLED (PipelineStep(b) \/ CleanupStep(b))

\* C16: a step of job a (failure, callback, cleanup and eviction included) leaves
\* every other job's registry record as it was, and in every state every unfinished
\* job b has its next continuation available once the running turn has ended.
C16_JobsIsolated ==
  /\ [][\A a \in JobIds : StepOf(a) => \A b \in JobIds \ {a} : SameRecord(b)]_vars
  /\ [](TurnEnds /\ \A b \in JobIds : CanProgress(b))

\* C16 witness: one job has failed and been evicted while the other is still
\* transcribing with its record resident
C16_Witness ==
  \E a, b \in JobIds :
    /\ a # b /\ timer[a] = "fired" /\ Last(hist[a]) = "failed"
    /\ pc[b] = "await_transcribe" /\ b \in DOMAIN jobs /\ jobs[b].status = "transcribing"

\* C17: every admitted job eventually has status completed or failed, given that
\* the download and the provider settle.
C17_AdmittedJobTerminates ==
  \A j \in JobIds :
    (pc[j] # "unborn") ~> (hist[j] # << >> /\ Last(hist[j]) \in Terminal)

\* C17 witness: a job whose download timed out or failed has reached failed
C17_Witness ==
  \E j \in JobIds :
    /\ calls[j].exec = 1 /\ ~calls[j].execResult.ok /\ pc[j] = "await_rm"
    /\ Last(hist[j]) = "failed"

\* cleanup of job j is over: fs.rm was called and has settled, the timer is set
CleanedUp(j) ==
  calls[j].rm # "none" /\ calls[j].setTimeout = 1 /\ timer[j] # "unset"

\* C18: a job that reached a terminal status gets its scratch directory removal
\* attempted and its eviction timer scheduled; the settling of the callback, with
\* whatever outcome, only moves the pipeline into the finally block.
C18_CleanupWhateverCallback ==
  /\ \A j \in JobIds :
       (hist[j] # << >> /\ Last(hist[j]) \in Terminal) ~> CleanedUp(j)
  /\ [][\A j \in JobIds :
          (pc[j] = "await_callback" /\ pc'[j] # pc[j]) =>
            /\ pc'[j] = "await_rm"
            /\ calls'[j].fetchResult \in FetchOutcomes
            /\ jobs' = jobs /\ hist' = hist]_vars
  /\ [](\A j \in JobIds : pc[j] = "done" => CleanedUp(j))

\* C18 witness: the callback timed out, and the removal was attempted and the
\* timer set all the same
C18_Witness ==
  \E j \in JobIds :
    /\ calls[j].fetchResult = "timeout" /\ Last(hist[j]) \in Terminal
    /\ pc[j] = "done" /\ CleanedUp(j)

\* C19: a job's eviction timer is set once, after the job's last registry write:
\* while it is set or has fired the pipeline writes nothing, the record it deletes
\* is a completed or failed one, and a deleted record is never created again.
C19_EvictionAfterLastWrite ==
  /\ [](\A j \in JobIds :
          /\ calls[j].setTimeout <= 1
          /\ timer[j] = "unset" <=> calls[j].setTimeout = 0
          /\ pc[j] = "done" => calls[j].setTimeout = 1
          /\ timer[j] # "unset" =>
               /\ pc[j] = "done" /\ Last(hist[j]) \in Terminal
               /\ timer[j] = "armed" =>
                    j \in DOMAIN jobs /\ jobs[j].status \in Terminal
               /\ timer[j] = "fired" => j \notin DOMAIN jobs)
  /\ [][\A j \in JobIds :
          /\ timer[j] # "unset" => hist'[j] = hist[j] /\ calls'[j].setTimeout = calls[j].setTimeout
          /\ (timer[j] = "armed" /\ j \in DOMAIN jobs') => jobs'[j] = jobs[j]
          /\ (j \in DOMAIN jobs /\ j \notin DOMAIN jobs') =>
               timer[j] = "armed" /\ timer'[j] = "fired" /\ jobs[j].status \in Terminal
          /\ hist[j] # << >> /\ j \notin DOMAIN jobs => j \notin DOMAIN jobs']_vars

\* C19 witness: a completed job was evicted by its timer while the process went on
\* serving another job
C19_Witness ==
  \E j, k \in JobIds :
    /\ timer[j] = "fired" /\ j \notin DOMAIN jobs /\ Last(hist[j]) = "completed"
    /\ calls[j].setTimeout = 1
    /\ k # j /\ k \in DOMAIN jobs

\* C20: no status or list query observes a record with status queued: outside the
\* creation handler's own turn no resident record is queued, and no response of
\* GET /job/:jobId or GET /jobs carries one.
C20_QueuedNeverObserved ==
  /\ \A j \in JobIds :
       (j \in DOMAIN jobs /\ jobs[j].status = "queued") =>
          cpu = Turn(j) /\ pc[j] \in {"respond", "start"}
  /\ lastGet.response.code = 200 => lastGet.response.body.status # "queued"
  /\ lastList.code = 200 =>
       \A i \in 1..Len(lastList.jobs) : lastList.jobs[i].status # "queued"

\* C20 witness: the first status a query sees for a job is processing
C20_Witness ==
  /\ lastGet.response.code = 200
  /\ lastGet.response.body.status = "processing"
  /\ hist[lastGet.id] = <<"queued", "processing">>

====
